---- MODULE Spec2Model ----
(***************************************************************************)
(* A model of the leaderboard ranking kernel:                              *)
(*   Online::rankIncoming / Online::replaceMin   (src/Leaderboard.cpp)      *)
(*   Offline::heapRank / Offline::quickSelectRank (src/Leaderboard.cpp)     *)
(*   VectorPlayerStream                           (src/PlayerStream.cpp)    *)
(*                                                                         *)
(* Vectors are TLA+ sequences, so C++ index i is position i + 1 here.       *)
(* A Player is a record [id, level]; id is the position the player had in  *)
(* the input, which lets the properties tell tied players apart.           *)
(***************************************************************************)
EXTENDS Integers, Sequences, FiniteSets

VARIABLES
    pc,                 \* position of the running operation
    players_,           \* VectorPlayerStream::players_
    index_,             \* VectorPlayerStream::index_
    reporting_interval, \* rankIncoming's parameter
    topPlayers,         \* the local vector topPlayers (rankIncoming, heapRank)
    cutoffs,            \* rankIncoming's local map, as a function
    playerCount,        \* rankIncoming's local counter
    fetched,            \* history: the players nextPlayer has returned, in order
    frontOfEmpty,       \* history: front() was evaluated on an empty vector
    top_,               \* RankingResult::top_ of the result returned
    cutoffs_,           \* RankingResult::cutoffs_ of the result returned
    players,            \* heapRank's argument vector
    topCount,           \* heapRank's local topCount
    playersQ,           \* quickSelectRank's argument vector (a copy of the input)
    topQ_,              \* RankingResult::top_ returned by quickSelectRank
    heap,               \* replaceMin: the range [first, last)
    heap0,              \* history: the range as it was when replaceMin was called
    target,             \* replaceMin: the replacement value
    result,             \* what the last call on the stream returned
    given,              \* history: the collection as it was handed in
    run,                \* which of the two runs of a repeated ranking this is
    prev                \* the result the first of the two runs returned

vars == <<pc, players_, index_, reporting_interval, topPlayers, cutoffs,
          playerCount, fetched, frontOfEmpty, top_, cutoffs_, players,
          topCount, playersQ, topQ_, heap, heap0, target, result, given, run,
          prev>>

onlineVars == <<players_, index_, reporting_interval, cutoffs, playerCount,
                fetched, frontOfEmpty, cutoffs_>>
offlineVars == <<players, topCount, playersQ, topQ_>>
heapVars == <<heap, heap0, target>>
testVars == <<result, given, run, prev>>

----------------------------------------------------------------------------
(* Bounds of the model *)

\* longest stream fed to rankIncoming
MaxT == 5
\* largest reporting interval
MaxR == 3
\* levels of streamed players and heap elements are 1..MaxLevel
MaxLevel == 3
\* longest range handed to replaceMin on its own
MaxHeap == 6
\* largest collection handed to heapRank and quickSelectRank
MaxN == 21
\* their collections have levels ((a * i + b) % m) + 1 at position i, for
\* m in 1..MaxMod, a in 0..MaxMod-1 and b in 0..MaxShift
MaxMod == 23
MaxShift == 2

Levels == 1..MaxLevel

----------------------------------------------------------------------------
(* Players and their order *)

Player(i, l) == [id |-> i, level |-> l]

\* Player::operator< : players are ordered by level alone
Less(a, b) == a.level < b.level

\* Player::operator> and std::greater<Player>
Greater(a, b) == Less(b, a)

\* the players of a vector whose levels are the given sequence
PlayersOf(lv) == [i \in 1..Len(lv) |-> Player(i, lv[i])]

Min(a, b) == IF a <= b THEN a ELSE b

Range(s) == {s[i] : i \in DOMAIN s}

SeqsUpTo(S, n) == UNION {[1..k -> S] : k \in 0..n}

\* nothing returned by a stream call, nothing ranked before
InitTest == result = <<>> /\ run = 1 /\ prev = <<>>

----------------------------------------------------------------------------
(* Standard-library algorithms, by what the C++ standard promises *)

Swap(v, i, j) == [v EXCEPT ![i] = v[j], ![j] = v[i]]

\* all rearrangements of a vector
Perms(v) ==
    LET n == Len(v)
        Bij == {f \in [1..n -> 1..n] : \A i, j \in 1..n : i # j => f[i] # f[j]}
    IN {[i \in 1..n |-> v[f[i]]] : f \in Bij}

\* std::is_heap(.., std::greater<Player>()): no element is below its parent.
\* The children of C++ index i are 2i+1 and 2i+2: positions 2p and 2p+1 here.
IsMinHeap(v) == \A p \in 2..Len(v) : ~Greater(v[p \div 2], v[p])

\* std::make_heap(.., std::greater<Player>()): the standard fixes only that the
\* result is a heap holding the same elements, so every such arrangement.
MakeMinHeap(v) == {h \in Perms(v) : IsMinHeap(h)}

\* std::sort: ascending by operator<; the order of equivalent elements is
\* unspecified, so every sorted arrangement.
Sort(v) == {s \in Perms(v) : \A i, j \in 1..Len(v) : i < j => ~Less(s[j], s[i])}

----------------------------------------------------------------------------
(* Online::replaceMin *)

\* a percolation that never looks at the right child
RECURSIVE PercolateLeftOnly(_, _)
PercolateLeftOnly(h, cur) ==
    LET leftChild == 2 * cur
    IN IF leftChild <= Len(h) /\ Less(h[leftChild], h[cur])
       THEN PercolateLeftOnly(Swap(h, cur, leftChild), leftChild)
       ELSE h

\* the while (true) loop: one pass per call, from position cur
RECURSIVE Percolate(_, _)
Percolate(h, cur) ==
    LET heapSize == Len(h)
        leftChild == 2 * cur
        rightChild == 2 * cur + 1
        s1 == IF leftChild <= heapSize /\ Less(h[leftChild], h[cur])
              THEN leftChild ELSE cur
        smallest == IF rightChild <= heapSize /\ Less(h[rightChild], h[s1])
                    THEN rightChild ELSE s1
    IN IF smallest = cur THEN h
       ELSE Percolate(Swap(h, cur, smallest), smallest)

\* a replaceMin that overwrites the root and stops
ReplaceMinNoPercolate(h, t) == IF Len(h) = 0 THEN h ELSE [h EXCEPT ![1] = t]

ReplaceMin(h, t) ==
    IF Len(h) = 0 THEN h
    ELSE Percolate([h EXCEPT ![1] = t], 1)

\* replaceMin called on its own: every min-heap of up to MaxHeap players and
\* every level of the replacement
InitReplaceMin ==
    /\ pc = "call"
    /\ heap \in {h \in {PlayersOf(lv) : lv \in SeqsUpTo(Levels, MaxHeap)} :
                   IsMinHeap(h)}
    /\ heap0 = heap
    /\ target \in {Player(0, l) : l \in Levels}
    /\ players_ = <<>>
    /\ index_ = 0
    /\ reporting_interval = 1
    /\ topPlayers = <<>>
    /\ cutoffs = <<>>
    /\ playerCount = 0
    /\ fetched = <<>>
    /\ frontOfEmpty = FALSE
    /\ top_ = <<>>
    /\ cutoffs_ = <<>>
    /\ players = <<>>
    /\ topCount = 0
    /\ playersQ = <<>>
    /\ topQ_ = <<>>
    /\ given = <<>>
    /\ InitTest

\* lines 127-166: the call replaceMin(first, last, target)
CallReplaceMin ==
    /\ pc = "call"
    /\ heap' = ReplaceMin(heap, target)
    /\ pc' = "returned"
    /\ UNCHANGED <<heap0, target, top_, topPlayers>>
    /\ UNCHANGED <<onlineVars, offlineVars, testVars>>

NextReplaceMin == CallReplaceMin

SpecReplaceMin == InitReplaceMin /\ [][NextReplaceMin]_vars

----------------------------------------------------------------------------
(* VectorPlayerStream *)

Remaining == Len(players_) - index_

\* nextPlayer's test for exhaustion
Exhausted == index_ >= Len(players_)

\* an index that skips a player
NextIndexSkipping(i) == i + 2

\* line 27: index_++
NextIndex(i) == i + 1

\* a stream used on its own, by any caller: what the last call did
StreamPcs == {"built", "returned", "threw", "counted"}

\* line 11: a stream built from a vector of players
InitStream ==
    /\ pc = "built"
    /\ players_ \in {PlayersOf(lv) : lv \in SeqsUpTo(Levels, MaxT)}
    /\ index_ = 0
    /\ fetched = <<>>
    /\ given = players_
    /\ InitTest
    /\ reporting_interval = 1
    /\ topPlayers = <<>>
    /\ cutoffs = <<>>
    /\ playerCount = 0
    /\ frontOfEmpty = FALSE
    /\ top_ = <<>>
    /\ cutoffs_ = <<>>
    /\ players = <<>>
    /\ topCount = 0
    /\ playersQ = <<>>
    /\ topQ_ = <<>>
    /\ heap = <<>>
    /\ heap0 = <<>>
    /\ target = Player(0, 1)

\* lines 22-28: a call of nextPlayer, which throws or returns a player
CallNextPlayer ==
    /\ pc \in StreamPcs
    /\ IF Exhausted
       THEN /\ pc' = "threw"
            /\ UNCHANGED <<index_, fetched, result>>
       ELSE /\ pc' = "returned"
            /\ result' = players_[index_ + 1]
            /\ index_' = NextIndex(index_)
            /\ fetched' = Append(fetched, players_[index_ + 1])
    /\ UNCHANGED <<players_, reporting_interval, topPlayers, cutoffs,
                   playerCount, frontOfEmpty, top_, cutoffs_, given, run, prev>>
    /\ UNCHANGED <<offlineVars, heapVars>>

\* lines 35-37: a call of remaining
CallRemaining ==
    /\ pc \in StreamPcs
    /\ pc' = "counted"
    /\ result' = Remaining
    /\ UNCHANGED <<players_, index_, fetched, reporting_interval, topPlayers,
                   cutoffs, playerCount, frontOfEmpty, top_, cutoffs_, given,
                   run, prev>>
    /\ UNCHANGED <<offlineVars, heapVars>>

NextStream == CallNextPlayer \/ CallRemaining

SpecStream == InitStream /\ [][NextStream]_vars

----------------------------------------------------------------------------
(* Online::rankIncoming *)

\* a loop test that is off by one
LoopGuardOffByOne == Remaining >= 0

\* while (stream.remaining() > 0)
LoopGuard == Remaining > 0

\* a leader update that never builds the heap
LeaderUpdateNoHeapify(top, p, R) ==
    IF Len(top) < R THEN {Append(top, p)}
    ELSE IF Greater(p, top[1]) THEN {ReplaceMin(top, p)}
    ELSE {top}

\* a leader update that also replaces on a tie with the root
LeaderUpdateOnTie(top, p, R) ==
    IF Len(top) < R
    THEN LET grown == Append(top, p)
         IN IF Len(grown) = R THEN MakeMinHeap(grown) ELSE {grown}
    ELSE IF ~Less(p, top[1]) THEN {ReplaceMin(top, p)}
    ELSE {top}

\* a leader update that appends once more when the buffer is full
LeaderUpdateOneMore(top, p, R) ==
    IF Len(top) <= R
    THEN LET grown == Append(top, p)
         IN IF Len(grown) = R THEN MakeMinHeap(grown) ELSE {grown}
    ELSE IF Greater(p, top[1]) THEN {ReplaceMin(top, p)}
    ELSE {top}

\* lines 213-220: the buffers the update of the leaders can leave
LeaderUpdate(top, p, R) ==
    IF Len(top) < R
    THEN LET grown == Append(top, p)
         IN IF Len(grown) = R THEN MakeMinHeap(grown) ELSE {grown}
    ELSE IF Greater(p, top[1]) THEN {ReplaceMin(top, p)}
    ELSE {top}

\* a snapshot test that fires one player late
SnapshotDueLate(count, R) == count % R = 1 % R /\ count > 1

\* line 222: playerCount % reporting_interval == 0
SnapshotDue(count, R) == count % R = 0

\* line 228: cutoffs.find(playerCount) == cutoffs.end()
FinalNeeded(m, count) == count \notin DOMAIN m

\* cutoffs[k] = v
Put(m, k, v) == [x \in DOMAIN m \cup {k} |-> IF x = k THEN v ELSE m[x]]

\* topPlayers.front().level_ : on an empty vector the behaviour is undefined;
\* the read faults, or yields whatever the storage holds.
FrontLevel(v) ==
    IF Len(v) = 0
    THEN {[crash |-> TRUE, level |-> 0]}
         \cup {[crash |-> FALSE, level |-> g] : g \in 0..MaxLevel}
    ELSE {[crash |-> FALSE, level |-> v[1].level]}

InitOnline ==
    /\ pc = "loop"
    /\ players_ \in {PlayersOf(lv) : lv \in SeqsUpTo(Levels, MaxT)}
    /\ index_ = 0
    /\ reporting_interval \in 1..MaxR
    /\ topPlayers = <<>>
    /\ cutoffs = <<>>
    /\ playerCount = 0
    /\ fetched = <<>>
    /\ frontOfEmpty = FALSE
    /\ top_ = <<>>
    /\ cutoffs_ = <<>>
    /\ players = <<>>
    /\ topCount = 0
    /\ playersQ = <<>>
    /\ topQ_ = <<>>
    /\ heap = <<>>
    /\ heap0 = <<>>
    /\ target = Player(0, 1)
    /\ given = players_
    /\ InitTest

\* lines 209-225: one pass of the loop
Consume ==
    /\ pc = "loop"
    /\ LoopGuard
    /\ UNCHANGED <<players_, reporting_interval, top_, cutoffs_>>
    /\ UNCHANGED <<offlineVars, heapVars, testVars>>
    /\ IF Exhausted
       THEN /\ pc' = "threw"
            /\ UNCHANGED <<index_, topPlayers, cutoffs, playerCount, fetched,
                           frontOfEmpty>>
       ELSE LET currentPlayer == players_[index_ + 1]
                count == playerCount + 1
            IN /\ index_' = NextIndex(index_)
               /\ fetched' = Append(fetched, currentPlayer)
               /\ playerCount' = count
               /\ \E t \in LeaderUpdate(topPlayers, currentPlayer,
                                        reporting_interval) :
                    /\ topPlayers' = t
                    /\ IF SnapshotDue(count, reporting_interval)
                       THEN \E f \in FrontLevel(t) :
                              /\ frontOfEmpty' = (frontOfEmpty \/ Len(t) = 0)
                              /\ IF f.crash
                                 THEN pc' = "crashed" /\ cutoffs' = cutoffs
                                 ELSE /\ pc' = "loop"
                                      /\ cutoffs' = Put(cutoffs, count, f.level)
                       ELSE UNCHANGED <<pc, cutoffs, frontOfEmpty>>

\* lines 227-230: the loop has ended; the entry for the final count
RecordFinal ==
    /\ pc = "loop"
    /\ ~LoopGuard
    /\ UNCHANGED <<players_, index_, reporting_interval, topPlayers,
                   playerCount, fetched, top_, cutoffs_>>
    /\ UNCHANGED <<offlineVars, heapVars, testVars>>
    /\ IF FinalNeeded(cutoffs, playerCount)
       THEN \E f \in FrontLevel(topPlayers) :
              /\ frontOfEmpty' = (frontOfEmpty \/ Len(topPlayers) = 0)
              /\ IF f.crash
                 THEN pc' = "crashed" /\ cutoffs' = cutoffs
                 ELSE /\ pc' = "sort"
                      /\ cutoffs' = Put(cutoffs, playerCount, f.level)
       ELSE pc' = "sort" /\ UNCHANGED <<cutoffs, frontOfEmpty>>

\* lines 232-240: sort the leaders and return the result
Return ==
    /\ pc = "sort"
    /\ \E s \in Sort(topPlayers) : topPlayers' = s /\ top_' = s
    /\ cutoffs_' = cutoffs
    /\ pc' = "done"
    /\ UNCHANGED <<players_, index_, reporting_interval, cutoffs, playerCount,
                   fetched, frontOfEmpty>>
    /\ UNCHANGED <<offlineVars, heapVars, testVars>>

NextOnline == Consume \/ RecordFinal \/ Return

Spec == InitOnline /\ [][NextOnline]_vars

----------------------------------------------------------------------------
(* Offline::heapRank and Offline::quickSelectRank *)

\* the top 10%: the divisor of players.size() / 10 and N / 10
TopDivisor == 10

\* the percolation of std::make_heap and std::pop_heap (operator< : a
\* max-heap) within the first n elements, from position cur
RECURSIVE SiftDownMax(_, _, _)
SiftDownMax(v, cur, n) ==
    LET l == 2 * cur
        r == 2 * cur + 1
        s1 == IF l <= n /\ Less(v[cur], v[l]) THEN l ELSE cur
        largest == IF r <= n /\ Less(v[s1], v[r]) THEN r ELSE s1
    IN IF largest = cur THEN v
       ELSE SiftDownMax(Swap(v, cur, largest), largest, n)

RECURSIVE HeapifyFrom(_, _)
HeapifyFrom(v, cur) ==
    IF cur < 1 THEN v
    ELSE HeapifyFrom(SiftDownMax(v, cur, Len(v)), cur - 1)

\* line 39, std::make_heap(players.begin(), players.end()): the standard fixes
\* only that the result is a max-heap of the same elements; the arrangement
\* computed is that of the bottom-up construction.
MakeHeap(v) == HeapifyFrom(v, Len(v) \div 2)

\* a pop_heap that moves the root to the back and restores nothing
PopHeapNoRestore(v) == IF Len(v) <= 1 THEN v ELSE Swap(v, 1, Len(v))

\* line 49, std::pop_heap: the root goes to the back, and the rest is a
\* max-heap again.
PopHeap(v) ==
    IF Len(v) <= 1 THEN v
    ELSE SiftDownMax(Swap(v, 1, Len(v)), 1, Len(v) - 1)

\* line 42: players.size() / 10
TopCount(N) == N \div TopDivisor

\* a partition index one too far
PartitionIndexOneMore(N) == Min(N, N - N \div TopDivisor + 1)

\* line 84: k = N - N / 10
PartitionIndex(N) == N - N \div TopDivisor

\* the subsets of S with j elements
RECURSIVE KSubsets(_, _)
KSubsets(S, j) ==
    IF j = 0 THEN {{}}
    ELSE IF S = {} THEN {}
    ELSE LET x == CHOOSE y \in S : TRUE
         IN KSubsets(S \ {x}, j)
            \cup {c \cup {x} : c \in KSubsets(S \ {x}, j - 1)}

\* the players of v whose ids are in I, in the order v has them
Keep(v, I) == SelectSeq(v, LAMBDA e : e.id \in I)

\* line 87, std::nth_element(begin, begin + k, end): afterwards the element at
\* index k is the one a full sort would put there, nothing before it is above
\* it and nothing from it on is below it; the standard fixes nothing else.
\* Which of the players tied at the boundary land at or after k, and the
\* arrangement from k on, range over every possibility; the players before k
\* are left in the order they had. With k = size nothing is done.
NthElement(v, k) ==
    LET N == Len(v)
        K == N - k
        all == Range(v)
        L == CHOOSE l \in {e.level : e \in all} :
                 /\ Cardinality({x \in all : x.level > l}) < K
                 /\ Cardinality({x \in all : x.level >= l}) >= K
        high == {e.id : e \in {x \in all : x.level > L}}
        tied == {e.id : e \in {x \in all : x.level = L}}
        ids == {e.id : e \in all}
    IN IF K = 0 THEN {v}
       ELSE UNION {
              {Keep(v, ids \ (high \cup c)) \o upper :
                 upper \in {u \in Perms(Keep(v, high \cup c)) : u[1].level = L}} :
              c \in KSubsets(tied, K - Cardinality(high))}

\* the collections ranked: levels in arithmetic progression modulo m
Gen(n, m, a, b) == PlayersOf([i \in 1..n |-> ((a * i + b) % m) + 1])

Collections ==
    {Gen(n, m, ab[1], ab[2]) :
        n \in 0..MaxN, m \in 1..MaxMod, ab \in (0..(MaxMod - 1)) \X (0..MaxShift)}

\* a test ranks a collection with heapRank and a copy of it with
\* quickSelectRank
InitOffline ==
    /\ pc = "heapRank"
    /\ players \in Collections
    /\ playersQ = players
    /\ topCount = 0
    /\ topPlayers = <<>>
    /\ top_ = <<>>
    /\ topQ_ = <<>>
    /\ cutoffs_ = <<>>
    /\ players_ = <<>>
    /\ index_ = 0
    /\ reporting_interval = 1
    /\ cutoffs = <<>>
    /\ playerCount = 0
    /\ fetched = <<>>
    /\ frontOfEmpty = FALSE
    /\ heap = <<>>
    /\ heap0 = <<>>
    /\ target = Player(0, 1)
    /\ given = players
    /\ InitTest

\* lines 39-45: build the heap, compute topCount
HeapRankBuild ==
    /\ pc = "heapRank"
    /\ players' = MakeHeap(players)
    /\ topCount' = TopCount(Len(players))
    /\ topPlayers' = <<>>
    /\ pc' = "extract"
    /\ UNCHANGED <<playersQ, topQ_, top_>>
    /\ UNCHANGED <<onlineVars, heapVars, testVars>>

\* lines 48-52: one pass of the extraction loop
HeapRankExtract ==
    /\ pc = "extract"
    /\ Len(topPlayers) < topCount
    /\ LET popped == PopHeap(players)
       IN /\ topPlayers' = Append(topPlayers, popped[Len(popped)])
          /\ players' = SubSeq(popped, 1, Len(popped) - 1)
    /\ UNCHANGED <<pc, topCount, playersQ, topQ_, top_>>
    /\ UNCHANGED <<onlineVars, heapVars, testVars>>

\* lines 54-62: sort the players extracted and return them
HeapRankReturn ==
    /\ pc = "extract"
    /\ ~(Len(topPlayers) < topCount)
    /\ \E s \in Sort(topPlayers) : topPlayers' = s /\ top_' = s
    /\ pc' = "quickSelectRank"
    /\ UNCHANGED <<players, topCount, playersQ, topQ_>>
    /\ UNCHANGED <<onlineVars, heapVars, testVars>>

\* lines 78-99: quickSelectRank on the copy
QuickSelectRank ==
    /\ pc = "quickSelectRank"
    /\ LET N == Len(playersQ)
           k == PartitionIndex(N)
       IN \E arranged \in NthElement(playersQ, k) :
            /\ playersQ' = arranged
            /\ \E s \in Sort(SubSeq(arranged, k + 1, N)) : topQ_' = s
    /\ pc' = "done"
    /\ UNCHANGED <<players, topCount, topPlayers, top_>>
    /\ UNCHANGED <<onlineVars, heapVars, testVars>>

NextOffline ==
    HeapRankBuild \/ HeapRankExtract \/ HeapRankReturn \/ QuickSelectRank

SpecOffline == InitOffline /\ [][NextOffline]_vars

----------------------------------------------------------------------------
(* A ranking run twice, on independent copies of one input without ties *)

\* no two players of the vector have the same level
NoTies(v) == \A i, j \in 1..Len(v) : i # j => v[i].level # v[j].level

\* nothing ranked yet; of names the operation that is run twice
NoResult(op) == [of |-> op, top |-> <<>>, cutoffs |-> <<>>, topQ |-> <<>>]

\* rankIncoming on a stream without ties, levels in 1..MaxT
InitTwiceOnline ==
    /\ pc = "loop"
    /\ players_ \in {v \in {PlayersOf(lv) : lv \in SeqsUpTo(1..MaxT, MaxT)} :
                       NoTies(v)}
    /\ index_ = 0
    /\ reporting_interval \in 1..MaxR
    /\ topPlayers = <<>>
    /\ cutoffs = <<>>
    /\ playerCount = 0
    /\ fetched = <<>>
    /\ frontOfEmpty = FALSE
    /\ top_ = <<>>
    /\ cutoffs_ = <<>>
    /\ players = <<>>
    /\ topCount = 0
    /\ playersQ = <<>>
    /\ topQ_ = <<>>
    /\ heap = <<>>
    /\ heap0 = <<>>
    /\ target = Player(0, 1)
    /\ given = players_
    /\ result = <<>>
    /\ run = 1
    /\ prev = NoResult("rankIncoming")

\* heapRank and quickSelectRank on a collection without ties
InitTwiceOffline ==
    /\ pc = "heapRank"
    /\ players \in {v \in Collections : NoTies(v)}
    /\ playersQ = players
    /\ topCount = 0
    /\ topPlayers = <<>>
    /\ top_ = <<>>
    /\ topQ_ = <<>>
    /\ cutoffs_ = <<>>
    /\ players_ = <<>>
    /\ index_ = 0
    /\ reporting_interval = 1
    /\ cutoffs = <<>>
    /\ playerCount = 0
    /\ fetched = <<>>
    /\ frontOfEmpty = FALSE
    /\ heap = <<>>
    /\ heap0 = <<>>
    /\ target = Player(0, 1)
    /\ given = players
    /\ result = <<>>
    /\ run = 1
    /\ prev = NoResult("heapRank, quickSelectRank")

\* the first rankIncoming has returned: keep its result and call it again on a
\* new stream built from the same vector
RankIncomingAgain ==
    /\ pc = "done"
    /\ run = 1
    /\ prev.of = "rankIncoming"
    /\ prev' = [prev EXCEPT !.top = top_, !.cutoffs = cutoffs_]
    /\ run' = 2
    /\ pc' = "loop"
    /\ players_' = given
    /\ index_' = 0
    /\ topPlayers' = <<>>
    /\ cutoffs' = <<>>
    /\ playerCount' = 0
    /\ fetched' = <<>>
    /\ top_' = <<>>
    /\ cutoffs_' = <<>>
    /\ UNCHANGED <<reporting_interval, frontOfEmpty, result, given>>
    /\ UNCHANGED <<offlineVars, heapVars>>

\* the first heapRank and quickSelectRank have returned: keep their results
\* and call them again on new copies of the collection
RankOfflineAgain ==
    /\ pc = "done"
    /\ run = 1
    /\ prev.of = "heapRank, quickSelectRank"
    /\ prev' = [prev EXCEPT !.top = top_, !.topQ = topQ_, !.cutoffs = cutoffs_]
    /\ run' = 2
    /\ pc' = "heapRank"
    /\ players' = given
    /\ playersQ' = given
    /\ topCount' = 0
    /\ topPlayers' = <<>>
    /\ top_' = <<>>
    /\ topQ_' = <<>>
    /\ UNCHANGED <<result, given>>
    /\ UNCHANGED <<onlineVars, heapVars>>

InitTwice == InitTwiceOnline \/ InitTwiceOffline

NextTwice == NextOnline \/ NextOffline \/ RankIncomingAgain \/ RankOfflineAgain

SpecTwice == InitTwice /\ [][NextTwice]_vars

----------------------------------------------------------------------------
(* Reference notions the properties of rankIncoming are stated with *)

T == Len(players_)

\* the first m players of the stream
Prefix(m) == {players_[i] : i \in 1..m}

\* listed in ascending order of level
Ascending(s) == \A i, j \in 1..Len(s) : i < j => s[i].level <= s[j].level

\* no player is listed twice
Distinct(s) == Cardinality(Range(s)) = Len(s)

\* a ranks above b: a higher level, or the same level and seen earlier
Beats(a, b) == a.level > b.level \/ (a.level = b.level /\ a.id < b.id)

\* the k highest players of P, ties going to the player seen earlier
FirstSeenTop(P, k) == {e \in P : Cardinality({x \in P : Beats(x, e)}) < k}

\* the k-th largest level among the players of P (P has at least k players)
KthLargest(P, k) ==
    CHOOSE v \in {e.level : e \in P} :
        /\ Cardinality({x \in P : x.level > v}) < k
        /\ Cardinality({x \in P : x.level >= v}) >= k

\* the lowest level among the players of P (P is not empty)
MinLevel(P) == CHOOSE v \in {e.level : e \in P} : \A x \in P : v <= x.level

Multiples(R, n) == {m \in 1..n : m % R = 0}

----------------------------------------------------------------------------
(* Properties of rankIncoming *)

\* C1 (as stated): the top subset returned by rankIncoming is exactly the R
\* highest-level players of the stream, a tie for the last place going to the
\* player seen earlier, in ascending order, and min(R, T) long.
C1_TopIsFirstSeenTopR ==
    pc = "done" =>
        /\ Len(top_) = Min(reporting_interval, T)
        /\ Ascending(top_)
        /\ Range(top_) = FirstSeenTop(Range(players_), reporting_interval)

\* C1 (amended): the top subset returned by rankIncoming holds min(R, T)
\* different players of the stream, in ascending order of level, and no player
\* left out has a higher level than a player kept; which of the players tied at
\* the lowest kept level are kept does not follow arrival order.
C1_TopHoldsHighestLevels ==
    pc = "done" =>
        /\ Len(top_) = Min(reporting_interval, T)
        /\ Ascending(top_)
        /\ Distinct(top_)
        /\ Range(top_) \subseteq Range(players_)
        /\ \A e \in Range(top_) : \A x \in Range(players_) \ Range(top_) :
               x.level <= e.level

\* a run that returned after replacing leaders, with a player left out that
\* ties with the lowest player kept
C1_Witness ==
    /\ pc = "done"
    /\ T >= reporting_interval + 2
    /\ \E e \in Range(top_) : e.id > reporting_interval
    /\ \E x \in Range(players_) \ Range(top_) : x.level = top_[1].level

\* C2: the keys of the cutoffs map returned by rankIncoming are exactly the
\* positive multiples of R up to the total T, together with T itself.
C2_CutoffKeys ==
    pc = "done" => DOMAIN cutoffs_ = Multiples(reporting_interval, T) \cup {T}

\* a run that returned with two periodic entries and a final count that is
\* not a multiple of R
C2_Witness ==
    /\ pc = "done"
    /\ T % reporting_interval # 0
    /\ Cardinality(Multiples(reporting_interval, T)) >= 2
    /\ Cardinality(DOMAIN cutoffs_) >= 3

\* C3: when at least R players are consumed, every entry m -> v of the cutoffs
\* map returned has v equal to the R-th largest level among the first m players.
C3_CutoffValues ==
    (pc = "done" /\ T >= reporting_interval) =>
        \A m \in DOMAIN cutoffs_ :
            cutoffs_[m] = KthLargest(Prefix(m), reporting_interval)

\* a run with R >= 2 that returned entries whose values rose as leaders were
\* replaced
C3_Witness ==
    /\ pc = "done"
    /\ reporting_interval >= 2
    /\ T > 2 * reporting_interval
    /\ \E a, b \in DOMAIN cutoffs_ : a < b /\ cutoffs_[a] < cutoffs_[b]

\* C4: when 1 <= T < R, the single forced entry T -> v of the cutoffs map has v
\* equal to the lowest level among the T players, whatever their order.
C4_ForcedCutoffIsMinimum ==
    (pc = "done" /\ 1 <= T /\ T < reporting_interval) =>
        /\ DOMAIN cutoffs_ = {T}
        /\ cutoffs_[T] = MinLevel(Range(players_))

\* C8: rankIncoming runs to completion without ever reading the front of an
\* empty leader buffer, for streams of any length, the empty one included.
C8_NeverFrontOfEmpty == ~frontOfEmpty /\ pc \in {"loop", "sort", "done"}

\* C9: nextPlayer is only called while the stream has players remaining, so
\* its exhaustion error is never raised.
C9_NeverExhausted == pc # "threw"

\* a run that called nextPlayer until the stream was empty and returned
C9_Witness == pc = "done" /\ T >= 3 /\ index_ = T /\ Len(fetched) = T

\* C10: rankIncoming terminates by returning, and when it has returned the
\* stream has nothing remaining and each of its T players was fetched exactly
\* once, in stream order.
C10_TerminatesDrained ==
    /\ pc = "done" \/ ENABLED NextOnline
    /\ pc = "done" => (Remaining = 0 /\ fetched = players_ /\ playerCount = T)

----------------------------------------------------------------------------
(* Properties of replaceMin *)

\* each element is <= its children, which C++ indices 2i+1 and 2i+2 hold
ValidMinHeap(v) ==
    \A i \in 0..(Len(v) - 1) : \A c \in {2 * i + 1, 2 * i + 2} :
        c < Len(v) => v[i + 1].level <= v[c + 1].level

\* C5: after replaceMin on a non-empty min-heap the range is again a min-heap
\* of the same length, and holds the old elements with the old root taken out
\* and target put in.
C5_ReplaceMinKeepsHeap ==
    (pc = "returned" /\ Len(heap0) > 0) =>
        /\ ValidMinHeap(heap)
        /\ Len(heap) = Len(heap0)
        /\ Distinct(heap)
        /\ Range(heap) = (Range(heap0) \ {heap0[1]}) \cup {target}

\* a call in which target went down two levels, through a right child
C5_Witness ==
    /\ pc = "returned"
    /\ Len(heap0) >= 6
    /\ heap[6] = target
    /\ heap[1] = heap0[3]
    /\ heap[3] = heap0[6]
    /\ heap0[2].level > heap0[3].level

----------------------------------------------------------------------------
(* Properties of heapRank and quickSelectRank *)

LevelsOf(s) == [i \in 1..Len(s) |-> s[i].level]

\* C6: heapRank returns exactly floor(N/10) players, whose levels are the
\* floor(N/10) highest levels of the input, in ascending order (none when
\* N < 10). The copy playersQ still holds the input when heapRank returns.
C6_HeapRankTop ==
    pc = "quickSelectRank" =>
        LET N == Len(playersQ)
            K == N \div 10
        IN /\ Len(top_) = K
           /\ N < 10 => top_ = <<>>
           /\ \A i \in 1..K :
                 top_[i].level = KthLargest(Range(playersQ), K - i + 1)
           /\ Distinct(top_)
           /\ Range(top_) \subseteq Range(playersQ)

\* heapRank returned two players of different levels out of twenty or more,
\* and left out a player tied with the lower one
C6_Witness ==
    /\ pc = "quickSelectRank"
    /\ Len(playersQ) >= 20
    /\ Len(top_) = 2
    /\ top_[1].level < top_[2].level
    /\ \E x \in Range(playersQ) \ Range(top_) : x.level = top_[1].level

\* C7: heapRank on a collection and quickSelectRank on a copy of it return top
\* subsets that are both ascending, both floor(N/10) long, and hold the same
\* levels, whatever arrangement the partition step leaves.
C7_SelectorsAgree ==
    pc = "done" =>
        /\ Ascending(top_)
        /\ Ascending(topQ_)
        /\ Len(top_) = Len(playersQ) \div 10
        /\ Len(topQ_) = Len(playersQ) \div 10
        /\ LevelsOf(top_) = LevelsOf(topQ_)

\* both returned two players of different levels, and not the same players:
\* a tie at the boundary was settled differently
C7_Witness ==
    /\ pc = "done"
    /\ Len(top_) = 2
    /\ top_[1].level < top_[2].level
    /\ Range(top_) # Range(topQ_)

----------------------------------------------------------------------------
(* Properties of VectorPlayerStream *)

\* C11: for a stream built from T players, under any calls: remaining() is in
\* 0..T and never increases; the i-th successful nextPlayer returns the i-th
\* player and lowers remaining() by exactly 1; nextPlayer at remaining() = 0
\* throws and leaves the index and the players as they were.
C11_StreamContract ==
    /\ [](Remaining \in 0..T)
    /\ [][Remaining' <= Remaining]_vars
    /\ [][pc' = "counted" => result' = Len(players_) - Len(fetched)]_vars
    /\ [][pc' = "returned" =>
            /\ result' = players_[Len(fetched) + 1]
            /\ Len(fetched') = Len(fetched) + 1
            /\ Remaining' = Remaining - 1]_vars
    /\ [][(Remaining = 0 /\ pc' \in {"returned", "threw"}) =>
            /\ pc' = "threw"
            /\ index_' = index_
            /\ players_' = players_]_vars

\* a stream of three or more players, drained, whose last nextPlayer threw
C11_Witness ==
    /\ pc = "threw"
    /\ T >= 3
    /\ Remaining = 0
    /\ fetched = players_

----------------------------------------------------------------------------
(* Properties of a ranking run twice *)

\* C12: when the levels of the input are pairwise distinct, a second run of
\* heapRank, quickSelectRank or rankIncoming on an independent copy of the
\* input returns the same top subset and the same cutoffs as the first,
\* whatever the heap build, the partition and the sort chose.
C12_SecondRunAgrees ==
    (pc = "done" /\ run = 2) =>
        /\ top_ = prev.top
        /\ topQ_ = prev.topQ
        /\ cutoffs_ = prev.cutoffs

----------------------------------------------------------------------------
(* Properties of the leader buffer of rankIncoming *)

\* the player a pass of the loop reads
Incoming == players_[index_ + 1]

\* a step that is a pass of the loop with the buffer already holding R players
FullPass ==
    /\ pc = "loop"
    /\ index_' = index_ + 1
    /\ Len(topPlayers) = reporting_interval

\* C13: when the buffer already holds R players and the incoming player's
\* level is equal to or lower than the root's, the player is discarded and the
\* buffer is left as it was; a player strictly above the root replaces the
\* root, and only then does the buffer change.
C13_TieDiscarded ==
    [][FullPass =>
         /\ Incoming.level <= topPlayers[1].level => topPlayers' = topPlayers
         /\ Incoming.level > topPlayers[1].level =>
               /\ topPlayers' # topPlayers
               /\ Range(topPlayers') =
                    (Range(topPlayers) \ {topPlayers[1]}) \cup {Incoming}]_vars

\* a full buffer of two or more players, after a player tied with the root
\* was read and is not in it
C13_Witness ==
    /\ pc = "loop"
    /\ reporting_interval >= 2
    /\ index_ > reporting_interval
    /\ fetched[index_].level = topPlayers[1].level
    /\ fetched[index_] \notin Range(topPlayers)

\* C14: the leader buffer never holds more than R players, and after c
\* players have been consumed it holds exactly min(c, R) of them.
C14_BufferSize ==
    /\ Len(topPlayers) <= reporting_interval
    /\ Len(topPlayers) = Min(playerCount, reporting_interval)

\* more players consumed than the buffer of two or more holds
C14_Witness ==
    /\ pc = "loop"
    /\ reporting_interval >= 2
    /\ playerCount >= reporting_interval + 2
    /\ Len(topPlayers) = reporting_interval

\* C15: once the buffer holds R players it is a min-heap by level at the end
\* of every pass of the loop, its front a lowest player of it, so replaceMin
\* is only called on a min-heap.
C15_BufferIsHeap ==
    (pc \in {"loop", "sort", "crashed"}
        /\ Len(topPlayers) = reporting_interval) =>
        /\ ValidMinHeap(topPlayers)
        /\ \A e \in Range(topPlayers) : topPlayers[1].level <= e.level

\* a buffer of three players after replaceMin put a later player below the
\* root
C15_Witness ==
    /\ pc = "loop"
    /\ reporting_interval = 3
    /\ Len(topPlayers) = 3
    /\ \E p \in 2..3 : topPlayers[p].id > 3
    /\ topPlayers[1].level < topPlayers[2].level
    /\ topPlayers[1].level < topPlayers[3].level

\* C16: for a non-empty stream the cutoffs returned are monotone in the
\* consumed count: a < b implies cutoffs[a] <= cutoffs[b].
C16_CutoffsMonotone ==
    (pc = "done" /\ T >= 1) =>
        \A a, b \in DOMAIN cutoffs_ : a < b => cutoffs_[a] <= cutoffs_[b]

\* three entries returned: the first two equal, the last one higher
C16_Witness ==
    /\ pc = "done"
    /\ \E a, b, c \in DOMAIN cutoffs_ :
          /\ a < b /\ b < c
          /\ cutoffs_[a] = cutoffs_[b]
          /\ cutoffs_[b] < cutoffs_[c]

----------------------------------------------------------------------------
(* Properties of the collections heapRank and quickSelectRank leave *)

\* C17: after heapRank on N players the collection holds N - floor(N/10) of
\* them, the collection and the top subset together are exactly the players
\* handed in, none lost and none twice, and no player remaining has a higher
\* level than a player returned; quickSelectRank leaves all N players, in
\* some order.
C17_CollectionsAfter ==
    LET N == Len(given)
    IN /\ pc \in {"quickSelectRank", "done"} =>
            /\ Len(players) = N - N \div 10
            /\ Len(players) + Len(top_) = N
            /\ Range(players) \cup Range(top_) = Range(given)
            /\ Range(players) \cap Range(top_) = {}
            /\ Distinct(players)
            /\ \A x \in Range(players) : \A e \in Range(top_) :
                   x.level <= e.level
       /\ pc = "done" =>
            /\ Len(playersQ) = N
            /\ Range(playersQ) = Range(given)

\* both have returned on twenty or more players: heapRank took two out of a
\* collection with a tie left behind, quickSelectRank rearranged its copy
C17_Witness ==
    /\ pc = "done"
    /\ Len(given) >= 20
    /\ Len(top_) = 2
    /\ \E x \in Range(players) : x.level = top_[1].level
    /\ playersQ # given

====
